---- MODULE Spec2Model ----
(***************************************************************************)
(* Model of sf_compressor (src/src/compressor.c): the allocation prologue, *)
(* the derivation of the run constants, the chunk loop with its per-sample *)
(* step, and the epilogue.                                                 *)
(*                                                                         *)
(* C `float` values are modelled as fixed-point integers in thousandths    *)
(* (1.0 is 1000) together with the IEEE-754 special values +Inf, -Inf and  *)
(* NaN.  Finite results are truncated toward zero to the next thousandth.  *)
(* A finite result whose magnitude exceeds FMAX overflows to an            *)
(* infinity, as a float result does; the parameter sets below only reach   *)
(* an overflow where the single-precision computation overflows too.       *)
(***************************************************************************)
EXTENDS Integers, Sequences, FiniteSets, TLC

\* ------------------------------------------------------------------------
\* float: representation and arithmetic
\* ------------------------------------------------------------------------
SCALE == 1000
FMAX == 200000000
PInf == 2000000000
NInf == -2000000000
NaN == 2100000000

IsNaN(v) == v = NaN
IsInf(v) == v = PInf \/ v = NInf
IsFinite(v) == v >= -FMAX /\ v <= FMAX

Abs(i) == IF i < 0 THEN -i ELSE i
Sgn(i) == IF i < 0 THEN -1 ELSE IF i > 0 THEN 1 ELSE 0
SInf(s) == IF s < 0 THEN NInf ELSE PInf

\* a finite result, overflowing to an infinity beyond FMAX
Rnd(r) == IF r > FMAX THEN PInf ELSE IF r < -FMAX THEN NInf ELSE r

\* (float)i for an int i
FromInt(i) == IF Abs(i) > FMAX \div SCALE THEN SInf(i) ELSE i * SCALE

\* (int)v for a finite float v: truncation toward zero
ToInt(v) == Sgn(v) * (Abs(v) \div SCALE)

\* comparisons: every comparison with a NaN operand is false
FLt(a, b) == ~IsNaN(a) /\ ~IsNaN(b) /\ a < b
FGt(a, b) == ~IsNaN(a) /\ ~IsNaN(b) /\ a > b
FLe(a, b) == ~IsNaN(a) /\ ~IsNaN(b) /\ a <= b
FEq(a, b) == ~IsNaN(a) /\ ~IsNaN(b) /\ a = b

FNeg(a) == IF IsNaN(a) THEN NaN ELSE -a

FAdd(a, b) ==
  IF IsNaN(a) \/ IsNaN(b) THEN NaN
  ELSE IF IsInf(a) /\ IsInf(b) THEN (IF a = b THEN a ELSE NaN)
  ELSE IF IsInf(a) THEN a
  ELSE IF IsInf(b) THEN b
  ELSE Rnd(a + b)

FSub(a, b) == FAdd(a, FNeg(b))

\* |a| * |b| / SCALE for finite operands
MulMag(x, y) ==
  LET big == IF x >= y THEN x ELSE y
      small == IF x >= y THEN y ELSE x
      q == big \div SCALE
      r == big % SCALE
  IN  IF small = 0 THEN 0
      ELSE IF small > 2000000 THEN PInf
      ELSE IF q > FMAX \div small THEN PInf
      ELSE Rnd(q * small + (r * small) \div SCALE)

FMul(a, b) ==
  IF IsNaN(a) \/ IsNaN(b) THEN NaN
  ELSE IF IsInf(a) \/ IsInf(b)
       THEN (IF a = 0 \/ b = 0 THEN NaN ELSE SInf(Sgn(a) * Sgn(b)))
  ELSE LET m == MulMag(Abs(a), Abs(b))
       IN  IF m = PInf THEN SInf(Sgn(a) * Sgn(b)) ELSE Sgn(a) * Sgn(b) * m

\* |a| / |b| * SCALE for finite operands, b # 0, by long division
DivMag(x, y) ==
  LET q == x \div y
      r0 == x % y
      d1 == (r0 * 10) \div y
      r1 == (r0 * 10) % y
      d2 == (r1 * 10) \div y
      r2 == (r1 * 10) % y
      d3 == (r2 * 10) \div y
  IN  IF q > FMAX \div SCALE THEN PInf
      ELSE Rnd(q * SCALE + d1 * 100 + d2 * 10 + d3)

FDiv(a, b) ==
  IF IsNaN(a) \/ IsNaN(b) THEN NaN
  ELSE IF IsInf(a) THEN (IF IsInf(b) THEN NaN
                         ELSE SInf(Sgn(a) * (IF b < 0 THEN -1 ELSE 1)))
  ELSE IF IsInf(b) THEN 0
  ELSE IF b = 0 THEN (IF a = 0 THEN NaN ELSE SInf(Sgn(a)))
  ELSE LET m == DivMag(Abs(a), Abs(b))
       IN  IF m = PInf THEN SInf(Sgn(a) * Sgn(b)) ELSE Sgn(a) * Sgn(b) * m

\* ------------------------------------------------------------------------
\* <math.h>: sqrtf, expf, logf, log10f, powf, asinf, sinf
\* ------------------------------------------------------------------------
LN2 == 693
LN10 == 2303
PI == 3142
HALFPI == 1571

RECURSIVE ISqrt(_, _, _)
\* largest s in lo..hi with s * s <= n
ISqrt(n, lo, hi) ==
  IF lo >= hi THEN lo
  ELSE LET mid == (lo + hi + 1) \div 2
       IN  IF mid * mid <= n THEN ISqrt(n, mid, hi) ELSE ISqrt(n, lo, mid - 1)

Sqrt(v) ==
  IF IsNaN(v) \/ v < 0 THEN NaN
  ELSE IF v = PInf THEN PInf
  ELSE IF v <= 2000000 THEN ISqrt(v * SCALE, 0, 46000)
  ELSE 100 * ISqrt(v \div 10, 0, 46000)

RECURSIVE Pow2(_)
Pow2(n) == IF n <= 0 THEN 1 ELSE 2 * Pow2(n - 1)

\* e^r for 0 <= r < LN2, by its Taylor series
ExpSmall(r) ==
  LET t2 == (r * r) \div 2000
      t3 == (t2 * r) \div 3000
      t4 == (t3 * r) \div 4000
      t5 == (t4 * r) \div 5000
      t6 == (t5 * r) \div 6000
  IN  SCALE + r + t2 + t3 + t4 + t5 + t6

Exp(v) ==
  IF IsNaN(v) THEN NaN
  ELSE IF v = PInf THEN PInf
  ELSE IF v = NInf THEN 0
  ELSE IF v > 12200 THEN PInf
  ELSE IF v < -7700 THEN 0
  ELSE LET n == v \div LN2
           r == v - n * LN2
           m == ExpSmall(r)
       IN  IF n >= 0 THEN Rnd(m * Pow2(n))
           ELSE m \div Pow2(-n)

RECURSIVE LnNorm(_, _)
\* <<m, e>> with v = m * 2^e (up to truncation) and SCALE <= m < 2 * SCALE
LnNorm(v, e) ==
  IF v >= 2 * SCALE THEN LnNorm(v \div 2, e + 1)
  ELSE IF v < SCALE THEN LnNorm(v * 2, e - 1)
  ELSE <<v, e>>

Ln(v) ==
  IF IsNaN(v) \/ v < 0 THEN NaN
  ELSE IF v = 0 THEN NInf
  ELSE IF v = PInf THEN PInf
  ELSE LET me == LnNorm(v, 0)
           m == me[1]
           e == me[2]
           z == ((m - SCALE) * SCALE) \div (m + SCALE)
           z2 == (z * z) \div SCALE
           z3 == (z2 * z) \div SCALE
           z5 == (z3 * z2) \div SCALE
           z7 == (z5 * z2) \div SCALE
           s == 2 * z + (2 * z3) \div 3 + (2 * z5) \div 5 + (2 * z7) \div 7
           el == IF e >= 0 THEN (e * 693147) \div 1000
                 ELSE -(((-e) * 693147) \div 1000)
       IN  s + el

Log10(v) ==
  LET l == Ln(v)
  IN  IF IsNaN(l) \/ IsInf(l) THEN l
      ELSE Sgn(l) * ((Abs(l) * SCALE) \div LN10)

\* powf(x, y) for x >= 0, with the special cases of C99 F.9.4.4
Powf(x, y) ==
  IF y = 0 \/ x = SCALE THEN SCALE
  ELSE IF IsNaN(x) \/ IsNaN(y) \/ x < 0 THEN NaN
  ELSE IF x = 0 THEN (IF y > 0 THEN 0 ELSE PInf)
  ELSE IF y = PInf THEN (IF x < SCALE THEN 0 ELSE PInf)
  ELSE IF y = NInf THEN (IF x < SCALE THEN PInf ELSE 0)
  ELSE IF x = PInf THEN (IF y > 0 THEN PInf ELSE 0)
  ELSE Exp(FMul(y, Ln(x)))

\* asinf(x) for 0 <= x <= 1/2, by its Taylor series
AsinSmall(x) ==
  LET x2 == (x * x) \div SCALE
      x3 == (x2 * x) \div SCALE
      x5 == (x3 * x2) \div SCALE
      x7 == (x5 * x2) \div SCALE
      x9 == (x7 * x2) \div SCALE
  IN  x + x3 \div 6 + (3 * x5) \div 40 + (15 * x7) \div 336
        + (105 * x9) \div 3456

AsinPos(x) ==
  IF x <= SCALE \div 2 THEN AsinSmall(x)
  ELSE HALFPI - 2 * AsinSmall(ISqrt((SCALE - x) * (SCALE \div 2), 0, SCALE))

Asin(v) ==
  IF IsNaN(v) \/ v > SCALE \/ v < -SCALE THEN NaN
  ELSE IF v >= 0 THEN AsinPos(v) ELSE -AsinPos(-v)

\* sinf and cosf on 0 <= x <= pi/4, by their Taylor series
SinSmall(x) ==
  LET x2 == (x * x) \div SCALE
      x3 == (x2 * x) \div SCALE
      x5 == (x3 * x2) \div SCALE
      x7 == (x5 * x2) \div SCALE
  IN  x - x3 \div 6 + x5 \div 120 - x7 \div 5040

CosSmall(x) ==
  LET x2 == (x * x) \div SCALE
      x4 == (x2 * x2) \div SCALE
      x6 == (x4 * x2) \div SCALE
  IN  SCALE - x2 \div 2 + x4 \div 24 - x6 \div 720

\* sinf on 0 <= x <= pi
SinHalf(x) ==
  LET y == IF x > HALFPI THEN PI - x ELSE x
  IN  IF y <= HALFPI \div 2 THEN SinSmall(y) ELSE CosSmall(HALFPI - y)

Sin(v) ==
  IF IsNaN(v) \/ IsInf(v) THEN NaN
  ELSE LET t == v % (2 * PI)
       IN  IF t <= PI THEN SinHalf(t) ELSE -SinHalf(t - PI)

\* ------------------------------------------------------------------------
\* compressor.c: helpers
\* ------------------------------------------------------------------------
sf_compressor_defaults ==
  [threshold |-> -24000, knee |-> 30000, ratio |-> 12000, attack |-> 3,
   release |-> 250, predelay |-> 6, releasezone1 |-> 90,
   releasezone2 |-> 160, releasezone3 |-> 420, releasezone4 |-> 980,
   postgain |-> 0, wet |-> 1000]

db2lin(db) == Powf(10000, FMul(50, db))

lin2db(lin) == FMul(20000, Log10(lin))

kneecurve(x, kk, lt) ==
  FAdd(lt, FDiv(FSub(1000, Exp(FMul(FNeg(kk), FSub(x, lt)))), kk))

kneeslope(x, kk, lt) ==
  FDiv(FMul(kk, x),
       FSub(FMul(FAdd(FMul(kk, lt), 1000), Exp(FMul(kk, FSub(x, lt)))), 1000))

compcurve(x, kk, sl, lt, ltk, threshold, knee, kdo) ==
  IF FLt(x, lt) THEN x
  ELSE IF FLe(knee, 0)
       THEN db2lin(FAdd(threshold, FMul(sl, FSub(lin2db(x), threshold))))
  ELSE IF FLt(x, ltk) THEN kneecurve(x, kk, lt)
  ELSE db2lin(FAdd(kdo, FMul(sl, FSub(FSub(lin2db(x), threshold), knee))))

adaptivereleasecurve(x, ca, cb, cc, cd) ==
  LET x2 == FMul(x, x)
  IN  FAdd(FAdd(FAdd(FMul(FMul(ca, x2), x), FMul(cb, x2)), FMul(cc, x)), cd)

clampf(v, min, max) ==
  IF FLt(v, min) THEN min ELSE IF FGt(v, max) THEN max ELSE v

absf(v) == IF FLt(v, 0) THEN FNeg(v) ELSE v

\* calculate knee curve parameters: the 15 iterations of the search for k
RECURSIVE kneesearch(_, _, _, _, _, _, _)
kneesearch(i, kk, mink, maxk, xknee, lt, sl) ==
  IF i >= 15 THEN kk
  ELSE IF FLt(kneeslope(xknee, kk, lt), sl)
       THEN kneesearch(i + 1, Sqrt(FMul(mink, kk)), mink, kk, xknee, lt, sl)
       ELSE kneesearch(i + 1, Sqrt(FMul(kk, maxk)), kk, maxk, xknee, lt, sl)

\* ------------------------------------------------------------------------
\* inputs: the sound and the parameters of one call
\* ------------------------------------------------------------------------
MaxLen == 64

Rates == {1000, 44100}
Lens == {n \in 0..MaxLen : n % 32 \in {0, 1}}
Predelays == {0, 1, 3, 6}
Wets == {0, 500, 1000}
Postgains == {0, 800000}
Knees == {0, 30000}

ZeroSample == [L |-> 0, R |-> 0]

\* the sample buffers a caller passes in: silence, an impulse at sample 0,
\* and a rising ramp whose samples are pairwise different
Patterns == {"zero", "impulse", "ramp"}
Pattern(p, n) ==
  [i \in 0..(n - 1) |->
     IF p = "impulse" THEN (IF i = 0 THEN [L |-> 1000, R |-> -500]
                            ELSE ZeroSample)
     ELSE IF p = "ramp" THEN [L |-> 10 * (i + 1), R |-> -5 * (i + 1)]
     ELSE ZeroSample]

Sounds ==
  {[rate |-> r, size |-> n, samples |-> Pattern(p, n)] :
     r \in Rates, n \in Lens, p \in Patterns}

ParamSets ==
  {[sf_compressor_defaults EXCEPT !.predelay = pd, !.wet = w,
                                  !.postgain = pg, !.knee = kn] :
     pd \in Predelays, w \in Wets, pg \in Postgains, kn \in Knees}

\* what memory outside an initialised object may hold
Garbage == {ZeroSample, [L |-> 777, R |-> -333]}
UninitFloat == {0, NaN}

\* ------------------------------------------------------------------------
\* state of one call of sf_compressor
\* ------------------------------------------------------------------------
VARIABLES
  pc,             \* position in sf_compressor
  snd, params,    \* the arguments
  heap,           \* the blocks this call has obtained: state and free count
  ret,            \* the value returned: "none" until the return
  delaybufsize, delaybuf, out, outwrites, inreads, chunks,
  cst,            \* the run constants of lines 102-151
  ch, chi, samplepos, delaywritepos, delayreadpos,
  detectoravg, compgain, maxcompdiffdb, metergain,
  scaleddesiredgain, compdiffdb, enveloperate,
  gain,           \* the final gain of the last sample step
  branch,         \* which arm of lines 221-227 the last sample step took
  ub              \* the undefined operations executed so far

vars == <<pc, snd, params, heap, ret, delaybufsize, delaybuf, out, outwrites,
          inreads, chunks, cst, ch, chi, samplepos, delaywritepos,
          delayreadpos, detectoravg, compgain, maxcompdiffdb, metergain,
          scaleddesiredgain, compdiffdb, enveloperate, gain, branch, ub>>

loopvars == <<ch, chi, samplepos, delaywritepos, delayreadpos, detectoravg,
              compgain, maxcompdiffdb, metergain, scaleddesiredgain,
              compdiffdb, enveloperate, gain, branch>>

samplesperchunk == 32

Block(st, n) == [state |-> st, frees |-> n]

\* malloc: the block becomes live
Malloc(h, b) == [h EXCEPT ![b] = Block("live", @.frees)]

\* free: a live block is released; any other block is an invalid free
Free(h, b) ==
  [h EXCEPT ![b] = Block(IF @.state = "live" THEN "freed" ELSE "invalid",
                         @.frees + 1)]

\* sf_snd_new: a sound object without samples
sf_snd_new(h) == Malloc(h, "out")

\* sf_snd_free: releases the samples, when there are any, and the object
sf_snd_free(h) ==
  Free(IF h["samples"].state = "live" THEN Free(h, "samples") ELSE h, "out")

Init ==
  /\ pc = "entry"
  /\ snd \in Sounds
  /\ params \in ParamSets
  /\ heap = [b \in {"delaybuf", "out", "samples"} |-> Block("none", 0)]
  /\ ret = "none"
  /\ delaybufsize = 0
  /\ delaybuf = <<>>
  /\ out = <<>>
  /\ outwrites = <<>>
  /\ inreads = {}
  /\ chunks = 0
  /\ cst = [set |-> FALSE]
  /\ ch = 0 /\ chi = 0 /\ samplepos = 0
  /\ delaywritepos = 0 /\ delayreadpos = 0
  /\ detectoravg = 0 /\ compgain = 0 /\ maxcompdiffdb = 0 /\ metergain = 0
  /\ scaleddesiredgain = 0 /\ compdiffdb = 0 /\ enveloperate = 0
  /\ gain = 0
  /\ branch = "none"
  /\ ub = {}

\* the size of the pre-delay buffer (line 82): the float product converted
\* to int
DelayBufSize(rate, predelay) == ToInt(FMul(FromInt(rate), predelay))

\* lines 82-86: the pre-delay buffer.  The cells past the end of the block
\* are the memory next to it, whose content is arbitrary.
AllocDelayBuf ==
  /\ pc = "entry"
  /\ delaybufsize' = DelayBufSize(snd.rate, params.predelay)
  /\ \/ /\ heap' = Malloc(heap, "delaybuf")
        /\ \E g \in Garbage :
             delaybuf' = [i \in 0..(delaybufsize' + snd.size + 1) |->
                            IF i < delaybufsize' THEN ZeroSample ELSE g]
        /\ pc' = "new_out"
        /\ ret' = ret
     \/ /\ ret' = "NULL"
        /\ pc' = "done"
        /\ UNCHANGED <<heap, delaybuf>>
  /\ UNCHANGED <<snd, params, out, outwrites, inreads, chunks, cst, ub>>
  /\ UNCHANGED loopvars

\* lines 87-91: the output sound object
NewOut ==
  /\ pc = "new_out"
  /\ \/ /\ heap' = sf_snd_new(heap)
        /\ pc' = "alloc_samples"
        /\ ret' = ret
     \/ /\ heap' = Free(heap, "delaybuf")
        /\ ret' = "NULL"
        /\ pc' = "done"
  /\ UNCHANGED <<snd, params, delaybufsize, delaybuf, out, outwrites, inreads,
                 chunks, cst, ub>>
  /\ UNCHANGED loopvars

\* the number of chunks, rounded up instead of down
ChunksRoundedUp(size) == (size + samplesperchunk - 1) \div samplesperchunk

\* the number of chunks (line 93)
Chunks(size) == size \div samplesperchunk

\* lines 92-99 with a failure path that releases the pre-delay buffer but
\* not the sound object
AllocSamplesLeak ==
  /\ pc = "alloc_samples"
  /\ chunks' = Chunks(snd.size)
  /\ \/ /\ heap' = Malloc(heap, "samples")
        /\ out' = <<>>
        /\ outwrites' = [i \in 0..(chunks' * samplesperchunk - 1) |-> 0]
        /\ pc' = "setup"
        /\ ret' = ret
     \/ /\ heap' = Free(heap, "delaybuf")
        /\ ret' = "NULL"
        /\ pc' = "done"
        /\ UNCHANGED <<out, outwrites>>
  /\ UNCHANGED <<snd, params, delaybufsize, delaybuf, inreads, cst, ub>>
  /\ UNCHANGED loopvars

\* lines 92-99: the output samples.  malloc leaves them uninitialised: out
\* holds the cells written so far, outwrites counts the writes to each cell
\* of the block.
AllocSamples ==
  /\ pc = "alloc_samples"
  /\ chunks' = Chunks(snd.size)
  /\ \/ /\ heap' = Malloc(heap, "samples")
        /\ out' = <<>>
        /\ outwrites' = [i \in 0..(chunks' * samplesperchunk - 1) |-> 0]
        /\ pc' = "setup"
        /\ ret' = ret
     \/ /\ heap' = Free(sf_snd_free(heap), "delaybuf")
        /\ ret' = "NULL"
        /\ pc' = "done"
        /\ UNCHANGED <<out, outwrites>>
  /\ UNCHANGED <<snd, params, delaybufsize, delaybuf, inreads, cst, ub>>
  /\ UNCHANGED loopvars

\* ------------------------------------------------------------------------
\* lines 101-162: the run constants and the initial loop state
\* ------------------------------------------------------------------------
ang90 == FMul(PI, 500)
ang90inv == FDiv(2000, PI)
spacingdb == 5000
satrelease == 2
meterfalloff == 325
\* 0.0001f, the silence threshold of line 198: the smallest positive value
\* of the model, so that exactly the zero input level lies below it
silence == 1

\* lines 116-134; without a knee, kneedboffset and linearthresholdknee stay
\* uninitialised and u is what they hold
KneeParams(lt, sl, u) ==
  IF FGt(params.knee, 0)
  THEN LET xknee == db2lin(FAdd(params.threshold, params.knee))
           kk == kneesearch(0, 5000, 100, 10000000, xknee, lt, sl)
       IN  [k |-> kk,
            kneedboffset |-> lin2db(kneecurve(xknee, kk, lt)),
            linearthresholdknee |-> db2lin(FAdd(params.threshold, params.knee))]
  ELSE [k |-> 5000, kneedboffset |-> u, linearthresholdknee |-> u]

\* lines 136-139
MasterGain(fulllevel) ==
  FMul(db2lin(params.postgain), Powf(FDiv(1000, fulllevel), 600))

\* lines 141-151
ReleaseCurve(releasesamples) ==
  LET y1 == FMul(releasesamples, params.releasezone1)
      y2 == FMul(releasesamples, params.releasezone2)
      y3 == FMul(releasesamples, params.releasezone3)
      y4 == FMul(releasesamples, params.releasezone4)
  IN  [a |-> FDiv(FAdd(FSub(FAdd(FNeg(y1), FMul(3000, y2)), FMul(3000, y3)),
                       y4), 6000),
       b |-> FSub(FAdd(FSub(y1, FMul(2500, y2)), FMul(2000, y3)),
                  FMul(500, y4)),
       c |-> FDiv(FAdd(FSub(FAdd(FMul(-11000, y1), FMul(18000, y2)),
                            FMul(9000, y3)), FMul(2000, y4)), 6000),
       d |-> y1]

RunConstants(u) ==
  LET lt == db2lin(params.threshold)
      sl == FDiv(1000, params.ratio)
      attacksamples == FMul(FromInt(snd.rate), params.attack)
      releasesamples == FMul(FromInt(snd.rate), params.release)
      kp == KneeParams(lt, sl, u)
      fulllevel == compcurve(1000, kp.k, sl, lt, kp.linearthresholdknee,
                             params.threshold, params.knee, kp.kneedboffset)
      rc == ReleaseCurve(releasesamples)
  IN  [set |-> TRUE,
       linearthreshold |-> lt,
       slope |-> sl,
       attacksamplesinv |-> FDiv(1000, attacksamples),
       satreleasesamplesinv |->
         FDiv(1000, FMul(FromInt(snd.rate), satrelease)),
       dry |-> FSub(1000, params.wet),
       meterrelease |->
         FSub(1000, Exp(FDiv(-1000, FMul(FromInt(snd.rate), meterfalloff)))),
       k |-> kp.k,
       kneedboffset |-> kp.kneedboffset,
       linearthresholdknee |-> kp.linearthresholdknee,
       mastergain |-> MasterGain(fulllevel),
       a |-> rc.a, b |-> rc.b, c |-> rc.c, d |-> rc.d]

\* the initial cursors of lines 155-156
InitWritePos == 0
InitReadPos == 1

Setup ==
  /\ pc = "setup"
  /\ \E u \in IF FGt(params.knee, 0) THEN {0} ELSE UninitFloat :
       cst' = RunConstants(u)
  /\ samplepos' = 0
  /\ delaywritepos' = InitWritePos
  /\ delayreadpos' = InitReadPos
  /\ detectoravg' = 0
  /\ compgain' = 1000
  /\ maxcompdiffdb' = -1000
  /\ metergain' = 1000
  /\ ch' = 0
  /\ pc' = "chunk"
  /\ UNCHANGED <<snd, params, heap, ret, delaybufsize, delaybuf, out,
                 outwrites, inreads, chunks, chi, scaleddesiredgain,
                 compdiffdb, enveloperate, gain, branch, ub>>

\* ------------------------------------------------------------------------
\* lines 163-185: the head of a chunk
\* ------------------------------------------------------------------------
ScaledDesiredGain(desiredgain) == FMul(Asin(desiredgain), ang90inv)

CompDiffDb(cg, sdg) == lin2db(FDiv(cg, sdg))

\* line 170: the chunk releases
Releasing(cdd) == FLt(cdd, 0)

\* lines 171-176
ReleaseRate(cdd) ==
  LET x == FMul(FAdd(clampf(cdd, -12000, 0), 12000), 250)
      releasesamples == adaptivereleasecurve(x, cst.a, cst.b, cst.c, cst.d)
  IN  db2lin(FDiv(spacingdb, releasesamples))

\* lines 179-180
MaxCompDiffDb(m, cdd) ==
  IF FEq(m, -1000) \/ FLt(m, cdd) THEN cdd ELSE m

\* lines 181-184
AttackRate(m) ==
  LET attenuate == IF FLt(m, 500) THEN 500 ELSE m
  IN  FSub(1000, Powf(FDiv(250, attenuate), cst.attacksamplesinv))

ChunkBegin ==
  /\ pc = "chunk"
  /\ ch < chunks
  /\ scaleddesiredgain' = ScaledDesiredGain(detectoravg)
  /\ compdiffdb' = CompDiffDb(compgain, scaleddesiredgain')
  /\ IF Releasing(compdiffdb')
     THEN /\ maxcompdiffdb' = -1000
          /\ enveloperate' = ReleaseRate(compdiffdb')
     ELSE /\ maxcompdiffdb' = MaxCompDiffDb(maxcompdiffdb, compdiffdb')
          /\ enveloperate' = AttackRate(maxcompdiffdb')
  /\ chi' = 0
  /\ pc' = "sample"
  /\ UNCHANGED <<snd, params, heap, ret, delaybufsize, delaybuf, out,
                 outwrites, inreads, chunks, cst, ch, samplepos,
                 delaywritepos, delayreadpos, detectoravg, compgain,
                 metergain, gain, branch, ub>>

\* ------------------------------------------------------------------------
\* lines 188-246: one sample of a chunk
\* ------------------------------------------------------------------------
\* lines 193-195
InputMax(smp) ==
  LET inputL == absf(smp.L)
      inputR == absf(smp.R)
  IN  IF FGt(inputL, inputR) THEN inputL ELSE inputR

\* lines 197-204
Attenuation(inputmax) ==
  IF FLt(inputmax, silence) THEN 1000
  ELSE FDiv(compcurve(inputmax, cst.k, cst.slope, cst.linearthreshold,
                      cst.linearthresholdknee, params.threshold, params.knee,
                      cst.kneedboffset),
            inputmax)

\* lines 206-215
DetectorRate(attenuation, davg) ==
  IF FGt(attenuation, davg)
  THEN LET attenuationdb0 == FNeg(lin2db(attenuation))
           attenuationdb == IF FLt(attenuationdb0, 2000) THEN 2000
                            ELSE attenuationdb0
           dbpersample == FMul(attenuationdb, cst.satreleasesamplesinv)
       IN  FSub(db2lin(dbpersample), 1000)
  ELSE 1000

\* lines 217-219
DetectorAvg(davg, attenuation) ==
  LET v == FAdd(davg, FMul(FSub(attenuation, davg),
                           DetectorRate(attenuation, davg)))
  IN  IF FGt(v, 1000) THEN 1000 ELSE v

\* line 221: the sample takes the attack arm
AttackArm(rate) == FLt(rate, 1000)

\* lines 221-227
CompGain(cg, sdg, rate) ==
  IF AttackArm(rate) THEN FAdd(cg, FMul(FSub(sdg, cg), rate))
  ELSE LET v == FMul(cg, rate)
       IN  IF FGt(v, 1000) THEN 1000 ELSE v

\* the gain state used as the premix gain without the sine
PremixGainNoSin(cg) == FMul(ang90, cg)

\* line 230
PremixGain(cg) == Sin(FMul(ang90, cg))

\* the final gain without the dry part of the mix
FinalGainNoDry(premixgain) ==
  FMul(FMul(params.wet, cst.mastergain), premixgain)

\* line 231
FinalGain(premixgain) ==
  FAdd(cst.dry, FMul(FMul(params.wet, cst.mastergain), premixgain))

\* lines 234-238
MeterGain(mg, premixgain) ==
  LET premixgaindb == lin2db(premixgain)
  IN  IF FLt(premixgaindb, mg) THEN premixgaindb
      ELSE FAdd(mg, FMul(FSub(premixgaindb, mg), cst.meterrelease))

\* lines 242-245
Apply(smp, g) == [L |-> FMul(smp.L, g), R |-> FMul(smp.R, g)]

\* lines 189-190: a cursor's next position, for a buffer of at least one cell
NextPos(pos) == (pos + 1) % delaybufsize

\* the undefined operations of a sample step: an access outside a block
SampleUB ==
  (IF samplepos >= snd.size THEN {"input_read_oob"} ELSE {})
    \cup (IF delaywritepos >= delaybufsize THEN {"delaybuf_write_oob"} ELSE {})
    \cup (IF delayreadpos >= delaybufsize THEN {"delaybuf_read_oob"} ELSE {})
    \cup (IF samplepos >= chunks * samplesperchunk THEN {"out_write_oob"}
          ELSE {})

\* The body, then the increments of the for statement.  With an empty
\* pre-delay buffer the increments take a remainder modulo zero, which is
\* undefined: the build either traps there (pc = "trap") or goes on with the
\* dividend as the remainder.
Sample ==
  /\ pc = "sample"
  /\ \E g \in IF samplepos >= snd.size THEN Garbage ELSE {ZeroSample} :
       LET smp == IF samplepos >= snd.size THEN g ELSE snd.samples[samplepos]
           mem == IF delaywritepos \in DOMAIN delaybuf
                  THEN [delaybuf EXCEPT ![delaywritepos] = smp]
                  ELSE delaybuf
           attenuation == Attenuation(InputMax(smp))
           premixgain == PremixGain(compgain')
           delayed == IF delayreadpos \in DOMAIN mem THEN mem[delayreadpos]
                      ELSE g
       IN  /\ delaybuf' = mem
           /\ inreads' = inreads \cup {samplepos}
           /\ detectoravg' = DetectorAvg(detectoravg, attenuation)
           /\ compgain' = CompGain(compgain, scaleddesiredgain, enveloperate)
           /\ branch' = IF AttackArm(enveloperate) THEN "attack" ELSE "release"
           /\ gain' = FinalGain(premixgain)
           /\ metergain' = MeterGain(metergain, premixgain)
           /\ IF samplepos < chunks * samplesperchunk
              THEN /\ out' = [i \in DOMAIN out \cup {samplepos} |->
                                IF i = samplepos THEN Apply(delayed, gain')
                                ELSE out[i]]
                   /\ outwrites' = [outwrites EXCEPT ![samplepos] = @ + 1]
              ELSE UNCHANGED <<out, outwrites>>
  /\ samplepos' = samplepos + 1
  /\ chi' = chi + 1
  /\ \/ /\ delaybufsize # 0
        /\ delayreadpos' = NextPos(delayreadpos)
        /\ delaywritepos' = NextPos(delaywritepos)
        /\ ub' = ub \cup SampleUB
        /\ pc' = IF chi' < samplesperchunk THEN "sample" ELSE "chunk"
     \/ /\ delaybufsize = 0
        /\ delayreadpos' = delayreadpos + 1
        /\ delaywritepos' = delaywritepos + 1
        /\ ub' = ub \cup SampleUB \cup {"mod_zero"}
        /\ pc' = IF chi' < samplesperchunk THEN "sample" ELSE "chunk"
     \/ /\ delaybufsize = 0
        /\ UNCHANGED <<delayreadpos, delaywritepos>>
        /\ ub' = ub \cup SampleUB \cup {"mod_zero"}
        /\ pc' = "trap"
  /\ ch' = IF chi' < samplesperchunk THEN ch ELSE ch + 1
  /\ UNCHANGED <<snd, params, heap, ret, delaybufsize, chunks, cst,
                 maxcompdiffdb, scaleddesiredgain, compdiffdb, enveloperate>>

\* lines 249-250: the loop is over.  A write past the end of the pre-delay
\* buffer has overwritten the memory next to the block, and free of such a
\* block is undefined: it may also abort.
Return ==
  /\ pc = "chunk"
  /\ ch >= chunks
  /\ \/ /\ heap' = Free(heap, "delaybuf")
        /\ ret' = "out"
        /\ pc' = "done"
     \/ /\ "delaybuf_write_oob" \in ub
        /\ pc' = "trap"
        /\ UNCHANGED <<heap, ret>>
  /\ UNCHANGED <<snd, params, delaybufsize, delaybuf, out, outwrites, inreads,
                 chunks, cst, ub>>
  /\ UNCHANGED loopvars

Next ==
  \/ AllocDelayBuf
  \/ NewOut
  \/ AllocSamples
  \/ Setup
  \/ ChunkBegin
  \/ Sample
  \/ Return

Spec == Init /\ [][Next]_vars

TypeOK == pc \in {"entry", "new_out", "alloc_samples", "setup", "chunk",
                  "sample", "done", "trap"}

\* ------------------------------------------------------------------------
\* properties
\* ------------------------------------------------------------------------
Returned == pc = "done" /\ ret = "out"
OutLen == Cardinality(DOMAIN outwrites)
Max(x, y) == IF x >= y THEN x ELSE y

\* C1: a call that returns a sound has written every output cell of
\* 0 .. 32*floor(n/32)-1 exactly once and no other, has read no input cell
\* at or past n, and for n a multiple of 32 the output has n cells; no cell
\* is ever written twice.
LengthTruncationLaw ==
  /\ \A i \in DOMAIN outwrites : outwrites[i] <= 1
  /\ inreads \subseteq 0..(snd.size - 1)
  /\ "out_write_oob" \notin ub /\ "input_read_oob" \notin ub
  /\ Returned =>
       /\ DOMAIN outwrites = 0..(32 * (snd.size \div 32) - 1)
       /\ DOMAIN out = DOMAIN outwrites
       /\ \A i \in DOMAIN outwrites : outwrites[i] = 1
       /\ inreads = DOMAIN outwrites
       /\ (snd.size % 32 = 0 => OutLen = snd.size)

LengthTruncationWitness ==
  Returned /\ snd.size = 33 /\ OutLen = 32 /\ DOMAIN out = 0..31

AllocationFailureCleanup ==
  /\ \A b \in DOMAIN heap : heap[b].state # "invalid" /\ heap[b].frees <= 1
  /\ pc = "done" =>
       /\ ret \in {"NULL", "out"}
       /\ ret = "NULL" =>
            \A b \in DOMAIN heap :
              \/ heap[b] = Block("none", 0)
              \/ heap[b] = Block("freed", 1)
       /\ ret = "out" =>
            /\ heap["delaybuf"] = Block("freed", 1)
            /\ heap["out"] = Block("live", 0)
            /\ heap["samples"] = Block("live", 0)
  /\ pc # "done" => ret = "none"

AllocationFailureWitness ==
  /\ pc = "done" /\ ret = "NULL"
  /\ heap["delaybuf"] = Block("freed", 1)
  /\ heap["out"] = Block("freed", 1)
  /\ heap["samples"] = Block("none", 0)

ZeroInput == \A i \in DOMAIN snd.samples : snd.samples[i] = ZeroSample

\* C4: for an all-zero input every output sample written is zero, the values
\* computed at the head of a chunk and the final gain are finite, and no
\* remainder modulo zero is taken.
SilenceInSilenceOut ==
  ZeroInput =>
    /\ \A i \in DOMAIN out : out[i] = ZeroSample
    /\ IsFinite(scaleddesiredgain) /\ IsFinite(compdiffdb)
    /\ IsFinite(enveloperate) /\ IsFinite(gain)
    /\ "mod_zero" \notin ub

ImpulseInput ==
  /\ snd.size > 0
  /\ snd.samples[0] # ZeroSample
  /\ \A i \in DOMAIN snd.samples : i # 0 => snd.samples[i] = ZeroSample

\* C5: for an impulse at sample 0, an input length that is a multiple of 32
\* and exceeds the buffer size N, the output is non-zero at index N and zero
\* everywhere else (stated for N >= 2 and a finite master gain, where every
\* buffer access is inside the buffer).
ImpulseDelayedByBufferSize ==
  (Returned /\ ImpulseInput /\ snd.size % 32 = 0 /\ snd.size > delaybufsize
     /\ delaybufsize >= 2 /\ IsFinite(cst.mastergain)) =>
    \A i \in DOMAIN out : (out[i] # ZeroSample) <=> (i = delaybufsize)

\* round(rate * predelay) for predelay in thousandths of a second
RoundedSize(rate, predelay) == (rate * predelay + 500) \div 1000

\* C6: the pre-delay buffer size is round(sampleRate * predelay) and at
\* least 1.
BufferSizeRoundedMinOne ==
  pc # "entry" =>
    delaybufsize = Max(1, RoundedSize(snd.rate, params.predelay))

InLoop == pc \in {"sample", "chunk"} /\ chi > 0

\* C7 as stated: at every sample step compgain lies in [0, 1] and the final
\* gain is finite and lies in [0, dry + wet * mastergain].
GainBounded ==
  InLoop =>
    /\ FLe(0, compgain) /\ FLe(compgain, 1000)
    /\ IsFinite(gain)
    /\ FLe(0, gain)
    /\ FLe(gain, FAdd(cst.dry, FMul(params.wet, cst.mastergain)))

\* C7 amended: whenever the master gain is finite, at every sample step
\* compgain lies in [0, 1] and the final gain is finite and lies in
\* [0, dry + wet * mastergain].
GainBoundedFiniteMaster ==
  (InLoop /\ IsFinite(cst.mastergain)) =>
    /\ FLe(0, compgain) /\ FLe(compgain, 1000)
    /\ IsFinite(gain)
    /\ FLe(0, gain)
    /\ FLe(gain, FAdd(cst.dry, FMul(params.wet, cst.mastergain)))

GainBoundedWitness ==
  /\ pc = "sample" /\ chi > 0 /\ ch = 1
  /\ params.wet = 500 /\ IsFinite(cst.mastergain) /\ cst.mastergain > 1000
  /\ gain > 1000
  /\ ~ ZeroInput

\* C8: at every sample step both cursors address cells of the buffer and
\* the read cursor is the cell after the write cursor, modulo the size (the
\* oldest cell).
CursorOffsetFixed ==
  pc = "sample" =>
    /\ delaybufsize > 0
    /\ delaywritepos \in 0..(delaybufsize - 1)
    /\ delayreadpos \in 0..(delaybufsize - 1)
    /\ delayreadpos = (delaywritepos + 1) % Max(1, delaybufsize)

\* C9: in a release chunk (compdiffdb < 0) the tracker is reset and every
\* sample takes the release arm; in any other chunk the tracker is at least
\* compdiffdb, the rate is the attack rate of the tracker, and every sample
\* takes the attack arm (stated for the calls that execute no undefined
\* operation).
AttackReleaseStateMachine ==
  ub = {} =>
  /\ pc = "sample" =>
       IF Releasing(compdiffdb) THEN maxcompdiffdb = -1000
       ELSE /\ FLe(compdiffdb, maxcompdiffdb)
            /\ enveloperate = AttackRate(maxcompdiffdb)
  /\ InLoop =>
       branch = IF Releasing(compdiffdb) THEN "release" ELSE "attack"

\* C10: every access to the pre-delay buffer is inside the buffer and no
\* cursor update takes a remainder modulo zero.
DelayBufferAccessInBounds ==
  /\ "delaybuf_write_oob" \notin ub
  /\ "delaybuf_read_oob" \notin ub
  /\ "mod_zero" \notin ub
====
